---- MODULE Spec2Model ----
(***************************************************************************)
(* Model of the gateway client of nodecord (src/src/util/Client.js): the   *)
(* connection bootstrap, the heartbeat monitor, the identify-or-resume     *)
(* handshake and the dispatch router.  One action per event the Node.js    *)
(* event loop can run against a Client object: the continuation of         *)
(* _gatewayConnect after endpoint discovery, the three transport handlers, *)
(* a heartbeat timer tick, and the public methods.                         *)
(*                                                                         *)
(* JavaScript strings that the code parses or normalises are sequences of  *)
(* one-character strings; null is Null.                                    *)
(***************************************************************************)
EXTENDS Integers, Sequences, FiniteSets, TLC

\* ---------------------------------------------------------------- bounds

MaxSockets == 2     \* transports that can be alive at once
MaxTimers == 2      \* interval timers that can be active at once
MaxPending == 2     \* _gatewayConnect calls awaiting endpoint discovery
MaxSeq == 2         \* sequence numbers carried by Dispatch frames
MaxCallbacks == 2   \* callbacks registered at once, in both registries
MaxLookups == 1     \* joinVoiceChannel calls awaiting the channel lookup

\* ------------------------------------------------------------- constants

Null == 0 - 1

OpDispatch == 0
OpHeartbeat == 1
OpIdentify == 2
OpStatusUpdate == 3
OpVoiceStateUpdate == 4
VoiceChannelType == 2
OpResume == 6
OpReconnect == 7
OpInvalidSession == 9
OpHello == 10
OpHeartbeatAck == 11
OpUnlisted == 12

LargeThreshold == 100

Intervals == {41250, 45000}
SessionIds == {1}

\* Event names, as sequences of characters.
READY == <<"R", "E", "A", "D", "Y">>
GUILD_CREATE == <<"G", "U", "I", "L", "D", "_", "C", "R", "E", "A", "T", "E">>
MESSAGE_CREATE == <<"M", "E", "S", "S", "A", "G", "E", "_", "C", "R", "E", "A", "T", "E">>
RESUMED == <<"R", "E", "S", "U", "M", "E", "D">>
TYPING_START == <<"T", "Y", "P", "I", "N", "G", "_", "S", "T", "A", "R", "T">>

commandChar == "!"

\* A timer handle: the Timeout object setInterval returns.  null and a
\* cancelled timer are one value: clearInterval does nothing to either, and
\* the code never tests the handle.
NoTimer == [active |-> FALSE, interval |-> 0]

\* ------------------------------------------------------------- the state

\* The payload d of a frame, with Null (or the empty text) for the fields
\* the frame's kind does not carry.
NoD == [heartbeat_interval |-> Null, session_id |-> Null, user |-> Null, id |-> Null, content |-> <<>>]

Frame(op, s, t, hasD, d) == [json |-> TRUE, op |-> op, s |-> s, t |-> t, hasD |-> hasD, d |-> d]

\* A message that is not JSON; also stands for no frame in the record of a
\* step that handles none.
NonJson == [json |-> FALSE, op |-> Null, s |-> Null, t |-> <<>>, hasD |-> FALSE, d |-> NoD]

\* No channel lookup: what a step that answers none records.
NoChannel == [exists |-> FALSE, guild_id |-> Null, type |-> Null]
NoLookup == [channelID |-> Null, selfMute |-> FALSE, selfDeaf |-> FALSE, rejects |-> FALSE, channelObj |-> NoChannel]

\* The handlers attached to a transport and the callback of a timer close
\* over the Client object only, so transports and timers the client no
\* longer references differ only in their state: they are counted.
VARIABLES
    socket,                 \* this.socket: "null", or the state of the transport it references: "open", "ending" (end() called), "closed" (end-of-stream seen)
    oldOpen,                \* transports no longer referenced that were never ended
    oldEnding,              \* transports no longer referenced on which end() was called
    heartbeatIntervalObj,   \* this.heartbeatIntervalObj: the timer it references
    orphanTimers,           \* active timers no longer referenced
    lastSequenceNum,        \* this.lastSequenceNum
    heartbeatAcknowledged,  \* this.heartbeatAcknowledged
    sessionID,              \* this.sessionID
    resuming,               \* this.resuming
    me,                     \* this.me
    guilds,                 \* this.guilds: guild id -> payload
    dispatchCallbacks,      \* this.dispatchCallbacks: event name -> callback
    commandCallbacks,       \* this.commandCallbacks: command word -> callback
    pending,                \* _gatewayConnect calls suspended at the await
    lookups,                \* joinVoiceChannel calls suspended at the await: their arguments
    sent,                   \* frames written during the last step
    last,                   \* what the last step was
    lastDispatchS,          \* history: s of the last Dispatch frame handled
    atReconnect,            \* history: <<sessionID, lastSequenceNum>> at the last reconnect(), while resuming
    outstanding,            \* history: a Heartbeat frame was sent, and no Heartbeat ACK handled or reconnect() called since
    tickHb,                 \* history: the heartbeat of the previous tick: "none", "sent", "acked"
    history,                \* whether atReconnect and tickHb are kept (fixed by the specification)
    connection,             \* history: armed (the Hello of the current connection was handled, and neither its end-of-stream nor a reconnect() since) and phase ("reconnecting" after a reconnect() of a session that had its READY, "opened" once the transport it led to is open, "none" after the handshake on it)
    track                   \* whether connection is kept (fixed by the specification)

vars == <<socket, oldOpen, oldEnding, heartbeatIntervalObj, orphanTimers,
          lastSequenceNum, heartbeatAcknowledged, sessionID, resuming, me, guilds,
          dispatchCallbacks, commandCallbacks, pending, sent, last,
          lastDispatchS, atReconnect, outstanding, tickHb, history,
          lookups, connection, track>>

\* The Client object, the environment it acts on, and what the running
\* handler has done so far (frames written, reconnect() calls, callbacks
\* called, callbacks registered, error raised and still propagating, error
\* caught, warnings logged, channel lookup answered).
This ==
    [socket |-> socket,
     oldOpen |-> oldOpen,
     oldEnding |-> oldEnding,
     heartbeatIntervalObj |-> heartbeatIntervalObj,
     orphanTimers |-> orphanTimers,
     lastSequenceNum |-> lastSequenceNum,
     heartbeatAcknowledged |-> heartbeatAcknowledged,
     sessionID |-> sessionID,
     resuming |-> resuming,
     me |-> me,
     guilds |-> guilds,
     dispatchCallbacks |-> dispatchCallbacks,
     commandCallbacks |-> commandCallbacks,
     pending |-> pending,
     lookups |-> lookups,
     sent |-> <<>>,
     reconnects |-> 0,
     calls |-> <<>>,
     registered |-> <<>>,
     error |-> FALSE,
     caught |-> FALSE,
     warnings |-> 0,
     lookup |-> NoLookup]

HeartbeatsIn(frames) == {n \in 1..Len(frames) : frames[n].op = OpHeartbeat}

\* The step's record: the kind of event, where it came from, the opcode,
\* the heartbeat interval, the event name and the payload of the frame
\* handled (those of NonJson when there is none),
\* the reconnect() calls made, the callbacks called, the registrations
\* made, whether an error left the handler, whether one was caught in it,
\* the warnings logged, the channel lookup that was answered.
Step(kind, src, data, c) ==
    [kind |-> kind, src |-> src, op |-> data.op, interval |-> data.d.heartbeat_interval,
     t |-> data.t, hasD |-> data.hasD, d |-> data.d,
     reconnects |-> c.reconnects, calls |-> c.calls, registered |-> c.registered,
     error |-> c.error, caught |-> c.caught, warnings |-> c.warnings, lookup |-> c.lookup]

\* The step ends: c is the state the handler leaves.
Commit(c, kind, src, data) ==
    /\ c.pending <= MaxPending
    /\ socket' = c.socket
    /\ oldOpen' = c.oldOpen
    /\ oldEnding' = c.oldEnding
    /\ heartbeatIntervalObj' = c.heartbeatIntervalObj
    /\ orphanTimers' = c.orphanTimers
    /\ lastSequenceNum' = c.lastSequenceNum
    /\ heartbeatAcknowledged' = c.heartbeatAcknowledged
    /\ sessionID' = c.sessionID
    /\ resuming' = c.resuming
    /\ me' = c.me
    /\ guilds' = c.guilds
    /\ dispatchCallbacks' = c.dispatchCallbacks
    /\ commandCallbacks' = c.commandCallbacks
    /\ pending' = c.pending
    /\ lookups' = c.lookups
    /\ sent' = c.sent
    /\ last' = Step(kind, src, data, c)
    /\ lastDispatchS' = IF kind = "data" /\ data.op = OpDispatch THEN data.s ELSE lastDispatchS
    /\ history' = history
    /\ atReconnect' = IF ~history THEN atReconnect
                      ELSE IF c.reconnects > 0 THEN <<sessionID, lastSequenceNum>>
                      ELSE IF c.resuming THEN atReconnect ELSE <<Null, Null>>
    /\ outstanding' = IF HeartbeatsIn(c.sent) # {} THEN TRUE
                      ELSE IF c.reconnects > 0 \/ (kind = "data" /\ data.op = OpHeartbeatAck) THEN FALSE
                      ELSE outstanding
    /\ tickHb' = IF ~history THEN tickHb
                 ELSE IF c.reconnects > 0 THEN "none"
                 ELSE IF kind = "tick" THEN "sent"
                 ELSE IF kind = "data" /\ data.op = OpHeartbeatAck /\ tickHb = "sent" THEN "acked"
                 ELSE tickHb
    /\ track' = track
    /\ connection' =
          IF ~track THEN connection
          ELSE LET hello == kind = "data" /\ src = "current" /\ data.op = OpHello /\ data.hasD /\ socket = "open"
                   opened == kind = "connect" /\ ~c.error
                   ended == kind = "end" /\ src = "current"
               IN [armed |-> IF c.reconnects > 0 \/ opened \/ ended THEN FALSE
                             ELSE IF hello THEN TRUE
                             ELSE connection.armed,
                   phase |-> IF c.reconnects > 0
                             THEN (IF sessionID # Null /\ (pending = 0 \/ connection.phase = "reconnecting")
                                   THEN "reconnecting" ELSE connection.phase)
                             ELSE IF opened /\ connection.phase = "reconnecting" THEN "opened"
                             ELSE IF (hello \/ ended) /\ connection.phase = "opened" THEN "none"
                             ELSE connection.phase]

\* The constructor: every field as assigned, and _gatewayConnect called once.
Constructed ==
    /\ socket = "null"
    /\ oldOpen = 0
    /\ oldEnding = 0
    /\ heartbeatIntervalObj = NoTimer
    /\ orphanTimers = 0
    /\ lastSequenceNum = Null
    /\ heartbeatAcknowledged = TRUE
    /\ sessionID = Null
    /\ resuming = FALSE
    /\ me = Null
    /\ guilds = <<>>
    /\ dispatchCallbacks = <<>>
    /\ commandCallbacks = <<>>
    /\ pending = 1
    /\ sent = <<>>
    /\ last = [kind |-> "constructor", src |-> "none", op |-> Null, interval |-> Null,
               t |-> <<>>, hasD |-> FALSE, d |-> NoD,
               reconnects |-> 0, calls |-> <<>>, registered |-> <<>>,
               error |-> FALSE, caught |-> FALSE, warnings |-> 0, lookup |-> NoLookup]
    /\ lookups = {}
    /\ connection = [armed |-> FALSE, phase |-> "none"]
    /\ lastDispatchS = Null
    /\ atReconnect = <<Null, Null>>
    /\ outstanding = FALSE
    /\ tickHb = "none"

\* The constructed client, without the two history variables that only the
\* statements C8 and C9 are checked against read.
Init == Constructed /\ history = FALSE /\ track = FALSE

\* The constructed client, with every history variable kept.
InitHistory == Constructed /\ history = TRUE /\ track = FALSE

\* The constructed client, with the history of its connections kept.
InitSession == Constructed /\ history = FALSE /\ track = TRUE

\* ------------------------------------------------- the runtime's timers

ActiveTimers(c) == c.orphanTimers + (IF c.heartbeatIntervalObj.active THEN 1 ELSE 0)

\* clearInterval(this.heartbeatIntervalObj)
clearInterval(c) == [c EXCEPT !.heartbeatIntervalObj = NoTimer]

\* this.heartbeatIntervalObj = setInterval(..., interval): the timer the
\* field referenced before, if still active, goes on ticking unreferenced.
setInterval(c, interval) ==
    [c EXCEPT !.orphanTimers = IF c.heartbeatIntervalObj.active THEN @ + 1 ELSE @,
              !.heartbeatIntervalObj = [active |-> TRUE, interval |-> interval]]

\* ------------------------------------------------------- the transports

LiveSockets(c) == c.oldOpen + c.oldEnding + (IF c.socket \in {"open", "ending"} THEN 1 ELSE 0)

\* this.socket.end(): an open transport starts closing, any other is left as it is.
endSocket(c) == IF c.socket = "open" THEN [c EXCEPT !.socket = "ending"] ELSE c

\* this.socket = nocket.createConnection(url): the transport the field
\* referenced before stays alive, unreferenced, until its end-of-stream.
createConnection(c) ==
    [c EXCEPT !.oldOpen = IF c.socket = "open" THEN @ + 1 ELSE @,
              !.oldEnding = IF c.socket = "ending" THEN @ + 1 ELSE @,
              !.socket = "open"]

\* The transport an end-of-stream came from is gone.
closed(c, src) ==
    CASE src = "current" -> [c EXCEPT !.socket = "closed"]
      [] src = "oldOpen" -> [c EXCEPT !.oldOpen = @ - 1]
      [] src = "oldEnding" -> [c EXCEPT !.oldEnding = @ - 1]

\* ------------------------------------------------------------ the client

\* _sendOpcode: writes {op, d, s: null, t: null} to this.socket; a null
\* socket makes this.socket.write raise a TypeError.  The frame is recorded
\* with the state of the transport it is written to.
sendOpcode(c, op, d) ==
    IF c.socket = "null"
    THEN [c EXCEPT !.error = TRUE]
    ELSE [c EXCEPT !.sent = Append(@, [op |-> op, d |-> d, s |-> Null, t |-> Null, to |-> c.socket])]

\* _gatewayConnect up to its await: the endpoint request is under way.
gatewayConnect(c) == [c EXCEPT !.pending = @ + 1]

\* _gatewayConnect after its await: ends the old transport when resuming
\* (a TypeError when there is none), opens the new one and attaches the
\* three handlers.
gatewayConnected(c) ==
    IF c.resuming /\ c.socket = "null"
    THEN [c EXCEPT !.pending = @ - 1, !.error = TRUE]
    ELSE createConnection([(IF c.resuming THEN endSocket(c) ELSE c) EXCEPT !.pending = @ - 1])

\* Mutant: reconnect() that leaves heartbeatAcknowledged as it is.
reconnect_KeepAck(c) ==
    gatewayConnect([clearInterval([c EXCEPT !.resuming = TRUE]) EXCEPT !.reconnects = @ + 1])

reconnect(c) ==
    gatewayConnect([clearInterval([c EXCEPT !.resuming = TRUE])
                        EXCEPT !.heartbeatAcknowledged = TRUE, !.reconnects = @ + 1])

\* Mutant: _heartbeat that sends without looking at heartbeatAcknowledged.
heartbeat_NoAckCheck(c) ==
    sendOpcode([c EXCEPT !.heartbeatAcknowledged = FALSE], OpHeartbeat, c.lastSequenceNum)

\* Mutant: _heartbeat that sends without marking the heartbeat unacknowledged.
heartbeat_KeepAck(c) ==
    IF c.heartbeatAcknowledged = FALSE
    THEN reconnect(c)
    ELSE sendOpcode(c, OpHeartbeat, c.lastSequenceNum)

heartbeat(c) ==
    IF c.heartbeatAcknowledged = FALSE
    THEN reconnect(c)
    ELSE sendOpcode([c EXCEPT !.heartbeatAcknowledged = FALSE], OpHeartbeat, c.lastSequenceNum)

IdentifyPayload ==
    [compress |-> FALSE, large_threshold |-> LargeThreshold,
     presence |-> [since |-> Null, status |-> "online", game |-> Null, afk |-> FALSE]]

\* Mutant: a Resume payload with its two fields swapped.
ResumePayload_Swapped(c) == [session_id |-> c.lastSequenceNum, seq |-> c.sessionID]

ResumePayload(c) == [session_id |-> c.sessionID, seq |-> c.lastSequenceNum]

\* Mutant: _handleHello that identifies whatever this.resuming is.
handleHello_AlwaysIdentify(c, interval) ==
    sendOpcode(setInterval(c, interval), OpIdentify, IdentifyPayload)

handleHello(c, interval) ==
    LET c1 == setInterval(c, interval)
    IN IF c1.resuming = FALSE
       THEN sendOpcode(c1, OpIdentify, IdentifyPayload)
       ELSE sendOpcode(c1, OpResume, ResumePayload(c1))

statusUpdate(c, status, game, since, afk) ==
    sendOpcode(c, OpStatusUpdate, [since |-> since, game |-> game, status |-> status, afk |-> afk])

leaveVoiceChannel(c, guildID) ==
    sendOpcode(c, OpVoiceStateUpdate,
               [guild_id |-> guildID, channel_id |-> Null, self_mute |-> FALSE, self_deaf |-> FALSE])

\* joinVoiceChannel up to its await: the channel request is under way.
joinVoiceChannel(c, channelID, selfMute, selfDeaf) ==
    [c EXCEPT !.lookups = @ \cup {[channelID |-> channelID, selfMute |-> selfMute, selfDeaf |-> selfDeaf]}]

\* joinVoiceChannel after its await: a request that fails makes the await
\* throw; channelObj.guild_id is read before channelObj is tested, a
\* TypeError when the request gave no channel.
joinVoiceChannelAnswered(c, call, rejects, channelObj) ==
    LET c1 == [c EXCEPT !.lookups = @ \ {call},
                        !.lookup = [channelID |-> call.channelID, selfMute |-> call.selfMute,
                                    selfDeaf |-> call.selfDeaf, rejects |-> rejects, channelObj |-> channelObj]]
    IN IF rejects \/ ~channelObj.exists
       THEN [c1 EXCEPT !.error = TRUE]
       ELSE IF channelObj.type = VoiceChannelType
            THEN sendOpcode(c1, OpVoiceStateUpdate,
                            [guild_id |-> channelObj.guild_id, channel_id |-> call.channelID,
                             self_mute |-> call.selfMute, self_deaf |-> call.selfDeaf])
            ELSE [c1 EXCEPT !.warnings = @ + 1]

\* --------------------------------------------------- JavaScript strings

UpperChars == <<"A", "B", "C", "D", "E", "F", "G", "H", "I", "J", "K", "L", "M",
                "N", "O", "P", "Q", "R", "S", "T", "U", "V", "W", "X", "Y", "Z">>
LowerChars == <<"a", "b", "c", "d", "e", "f", "g", "h", "i", "j", "k", "l", "m",
                "n", "o", "p", "q", "r", "s", "t", "u", "v", "w", "x", "y", "z">>

LowerChar(ch) == IF \E i \in 1..26 : UpperChars[i] = ch THEN LowerChars[CHOOSE i \in 1..26 : UpperChars[i] = ch] ELSE ch
UpperChar(ch) == IF \E i \in 1..26 : LowerChars[i] = ch THEN UpperChars[CHOOSE i \in 1..26 : LowerChars[i] = ch] ELSE ch

toLowerCase(str) == [i \in 1..Len(str) |-> LowerChar(str[i])]
toUpperCase(str) == [i \in 1..Len(str) |-> UpperChar(str[i])]
replaceAll(str, a, b) == [i \in 1..Len(str) |-> IF str[i] = a THEN b ELSE str[i]]

\* str.indexOf(ch): the 0-based place of the first ch, -1 when there is none.
indexOf(str, ch) == IF \E i \in 1..Len(str) : str[i] = ch THEN (CHOOSE i \in 1..Len(str) : str[i] = ch /\ \A j \in 1..(i - 1) : str[j] # ch) - 1 ELSE 0 - 1

\* str.substr(start, length) for start >= 0.
substr(str, start, length) == IF length <= 0 \/ start >= Len(str) THEN <<>> ELSE SubSeq(str, start + 1, IF start + length < Len(str) THEN start + length ELSE Len(str))

\* str.split(' ')[0]
firstWord(str) == IF indexOf(str, " ") < 0 THEN str ELSE SubSeq(str, 1, indexOf(str, " "))

\* ---------------------------------------------------- the dispatch router

\* Calling a registered callback: the call is recorded; a callback that
\* throws leaves the error to propagate.
invoke(c, reg, key, cb, hasD, d, rest) ==
    [c EXCEPT !.calls = Append(@, [reg |-> reg, key |-> key, cb |-> cb.id, hasD |-> hasD, d |-> d, rest |-> rest]),
              !.error = cb.throws]

\* The registries are plain objects ({}): reading registry[key] gives the
\* own property when there is one and otherwise what Object.prototype has
\* under that name.  Of the inherited names, "constructor" is the one a
\* lower-cased command word can spell; it holds the function Object, which
\* returns without throwing when called.
constructor == <<"c", "o", "n", "s", "t", "r", "u", "c", "t", "o", "r">>
InheritedKeys == {constructor}
ObjectFunction == [id |-> 0, throws |-> FALSE]

\* Whether registry[key] is truthy, and its value when it is.
has(registry, key) == key \in DOMAIN registry \/ key \in InheritedKeys
get(registry, key) == IF key \in DOMAIN registry THEN registry[key] ELSE ObjectFunction

\* registry[key] = value
setProperty(registry, key, value) == [x \in (DOMAIN registry) \cup {key} |-> IF x = key THEN value ELSE registry[x]]

\* Mutant: _emitEvent that calls the callback twice.
emitEvent_Twice(c, eventName, hasD, eventData) ==
    IF has(c.dispatchCallbacks, eventName)
    THEN invoke(invoke(c, "event", eventName, get(c.dispatchCallbacks, eventName), hasD, eventData, <<>>),
                "event", eventName, get(c.dispatchCallbacks, eventName), hasD, eventData, <<>>)
    ELSE c

emitEvent(c, eventName, hasD, eventData) ==
    IF has(c.dispatchCallbacks, eventName)
    THEN invoke(c, "event", eventName, get(c.dispatchCallbacks, eventName), hasD, eventData, <<>>)
    ELSE c

\* The MESSAGE_CREATE case of _handleDispatch.
handleMessage(c, data) ==
    LET msg == data.content
        command == substr(msg, 1, Len(msg) - 1)
        commandWord == toLowerCase(firstWord(command))
        firstSpace == indexOf(command, " ")
        len == Len(command) - firstSpace
        restOfCommand == substr(command, firstSpace + 1, len)
    IN IF Len(msg) > 0 /\ msg[1] = commandChar /\ has(c.commandCallbacks, commandWord)
       THEN invoke(c, "command", commandWord, get(c.commandCallbacks, commandWord), TRUE, data, restOfCommand)
       ELSE c

setGuild(g, id, data) == [x \in (DOMAIN g) \cup {id} |-> IF x = id THEN data ELSE g[x]]

\* _handleDispatch: a missing payload (data undefined) makes the READY,
\* GUILD_CREATE and MESSAGE_CREATE cases raise a TypeError.
handleDispatch(c, dispatchName, hasD, data) ==
    LET c1 == emitEvent(c, dispatchName, hasD, data)
    IN IF c1.error THEN c1
       ELSE IF dispatchName = READY
            THEN IF hasD THEN [c1 EXCEPT !.sessionID = data.session_id, !.me = data.user]
                 ELSE [c1 EXCEPT !.error = TRUE]
       ELSE IF dispatchName = GUILD_CREATE
            THEN IF hasD THEN [c1 EXCEPT !.guilds = setGuild(@, data.id, data)]
                 ELSE [c1 EXCEPT !.error = TRUE]
       ELSE IF dispatchName = MESSAGE_CREATE
            THEN IF hasD THEN handleMessage(c1, data)
                 ELSE [c1 EXCEPT !.error = TRUE]
       ELSE IF dispatchName = RESUMED
            THEN [c1 EXCEPT !.resuming = FALSE]
       ELSE c1

\* this.GatewayOpcodes[op]
GatewayOpcodes(op) ==
    CASE op = 0 -> "Dispatch" [] op = 1 -> "Heartbeat" [] op = 2 -> "Identify"
      [] op = 3 -> "Status Update" [] op = 4 -> "Voice State Update"
      [] op = 5 -> "Voice Server Ping" [] op = 6 -> "Resume" [] op = 7 -> "Reconnect"
      [] op = 8 -> "Request Guild Members" [] op = 9 -> "Invalid Session"
      [] op = 10 -> "Hello" [] op = 11 -> "Heartbeat ACK" [] OTHER -> "undefined"

\* Mutant: a sequence number that only moves forward.
recordSequence_OnlyForward(c, s) == IF s > c.lastSequenceNum THEN [c EXCEPT !.lastSequenceNum = s] ELSE c

\* this.lastSequenceNum = obj.s
recordSequence(c, s) == [c EXCEPT !.lastSequenceNum = s]

handleGatewayObject(c, obj) ==
    LET opName == GatewayOpcodes(obj.op)
    IN CASE opName = "Dispatch" ->
              handleDispatch(recordSequence(c, obj.s), obj.t, obj.hasD, obj.d)
         [] opName = "Heartbeat" -> heartbeat(c)
         [] opName = "Reconnect" -> reconnect(c)
         [] opName = "Invalid Session" ->
              IF c.socket # "null" THEN endSocket(c) ELSE c
         [] opName = "Hello" ->
              IF obj.hasD THEN handleHello(c, obj.d.heartbeat_interval)
              ELSE [c EXCEPT !.error = TRUE]
         [] opName = "Heartbeat ACK" -> [c EXCEPT !.heartbeatAcknowledged = TRUE]
         [] OTHER -> c

\* Mutant: the 'data' handler without its try/catch.
onData_NoCatch(c, data) ==
    IF data.json THEN handleGatewayObject(c, data) ELSE [c EXCEPT !.error = TRUE]

\* The 'data' handler: JSON.parse and _handleGatewayObject inside try/catch;
\* what was assigned before the error was raised stays.
onData(c, data) ==
    LET r == IF data.json THEN handleGatewayObject(c, data) ELSE [c EXCEPT !.error = TRUE]
    IN IF r.error THEN [r EXCEPT !.error = FALSE, !.caught = TRUE] ELSE r

\* The 'end' handler.
onEnd(c) == clearInterval(c)

\* What a registration call was given, kept in the step's record.
Registration(reg, name, callback) == [reg |-> reg, name |-> name, cb |-> callback.id]

\* Mutant: onEvent that stores under the name as given.
onEvent_Raw(c, eventName, callback) ==
    [c EXCEPT !.dispatchCallbacks = setProperty(@, eventName, callback),
              !.registered = Append(@, Registration("event", eventName, callback))]

onEvent(c, eventName, callback) ==
    LET eName == replaceAll(toUpperCase(eventName), " ", "_")
    IN [c EXCEPT !.dispatchCallbacks = setProperty(@, eName, callback),
                 !.registered = Append(@, Registration("event", eventName, callback))]

registerCommand(c, keyWord, callback) ==
    [c EXCEPT !.commandCallbacks = setProperty(@, toLowerCase(keyWord), callback),
              !.registered = Append(@, Registration("command", keyWord, callback))]

\* ------------------------------------------------------- inbound frames

ReadyPayloads == {[NoD EXCEPT !.session_id = x, !.user = x] : x \in SessionIds}

DispatchFrames ==
    {Frame(OpDispatch, s, READY, TRUE, d) : s \in 1..MaxSeq, d \in ReadyPayloads}
    \cup {Frame(OpDispatch, s, t, FALSE, NoD) : s \in 1..MaxSeq, t \in {READY, RESUMED, TYPING_START}}

ControlFrames ==
    {Frame(op, Null, <<>>, FALSE, NoD) :
        op \in {OpHeartbeat, OpReconnect, OpInvalidSession, OpHello, OpHeartbeatAck, OpUnlisted}}
    \cup {Frame(OpHello, Null, <<>>, TRUE, [NoD EXCEPT !.heartbeat_interval = i]) : i \in Intervals}

Frames == DispatchFrames \cup ControlFrames \cup {NonJson}

\* The frames the dispatch router is exercised with: Dispatch frames of every
\* event name the router has a case for, with message contents that do and
\* do not spell a command, and a message that is not JSON, delivered by the
\* transport this.socket references.
GuildIds == {1}
GuildFrames == {Frame(OpDispatch, s, GUILD_CREATE, TRUE, [NoD EXCEPT !.id = g]) : s \in 1..MaxSeq, g \in GuildIds}

Contents ==
    {<<"!", "p", "i", "n", "g">>,
     <<"!", "P", "i", "n", "g", " ", "A", " ", "b">>,
     <<"p", "i", "n", "g", " ", "a">>,
     <<"!", "p", "o", "n", "g", " ", "a">>,
     <<"!", "c", "o", "n", "s", "t", "r", "u", "c", "t", "o", "r", " ", "a">>,
     <<>>}
MessageFrames == {Frame(OpDispatch, s, MESSAGE_CREATE, TRUE, [NoD EXCEPT !.content = m]) : s \in 1..MaxSeq, m \in Contents}

\* Routing does not read the sequence number: one value is enough here.
RouterFrames == {f \in DispatchFrames \cup GuildFrames \cup MessageFrames : f.s = MaxSeq} \cup {NonJson}

\* What the application registers: callbacks that return and callbacks that
\* throw, under event names and command words in either spelling.
Callbacks == {[id |-> 1, throws |-> FALSE], [id |-> 2, throws |-> TRUE]}
EventNames ==
    {<<"m", "e", "s", "s", "a", "g", "e", " ", "c", "r", "e", "a", "t", "e">>, MESSAGE_CREATE,
     <<"r", "e", "a", "d", "y">>, <<"R", "e", "s", "u", "m", "e", "d">>, <<"g", "u", "i", "l", "d", "_", "c", "r", "e", "a", "t", "e">>}
CommandWords == {<<"p", "i", "n", "g">>, <<"P", "i", "n", "g">>}

\* Where a transport event comes from: the transport this.socket
\* references, or one it no longer references (for an end-of-stream, which
\* kind of those).
Sources == {"current", "old"}
EndSources == {"current", "oldOpen", "oldEnding"}

Alive(src) ==
    CASE src = "current" -> socket \in {"open", "ending"}
      [] src = "old" -> oldOpen + oldEnding > 0
      [] src = "oldOpen" -> oldOpen > 0
      [] src = "oldEnding" -> oldEnding > 0

\* --------------------------------------------------------------- actions

\* The endpoint request of a suspended _gatewayConnect is answered.
Discovered ==
    /\ pending > 0
    /\ LiveSockets(gatewayConnected(This)) <= MaxSockets
    /\ Commit(gatewayConnected(This), "connect", "none", NonJson)

\* The endpoint request of a suspended _gatewayConnect fails: the call ends there.
DiscoveryFails ==
    /\ pending > 0
    /\ Commit([This EXCEPT !.pending = @ - 1, !.error = TRUE], "connect_failed", "none", NonJson)

\* A transport delivers a message to its 'data' handler.
SocketData(src, data) ==
    /\ Alive(src)
    /\ ActiveTimers(onData(This, data)) <= MaxTimers
    /\ Commit(onData(This, data), "data", src, data)

\* A transport signals end-of-stream.
SocketEnd(src) ==
    /\ Alive(src)
    /\ Commit(onEnd(closed(This, src)), "end", src, NonJson)

\* A transport signals a disconnect by the host: the handler only logs.
HostDisconnect(src) ==
    /\ Alive(src)
    /\ Commit(This, "host_disconnect", src, NonJson)

\* An active timer fires: the one this.heartbeatIntervalObj references, or
\* one it no longer references.
TimerTick(src) ==
    /\ IF src = "current" THEN heartbeatIntervalObj.active ELSE orphanTimers > 0
    /\ Commit(heartbeat(This), "tick", src, NonJson)

\* The application calls reconnect().
Reconnect ==
    /\ Commit(reconnect(This), "reconnect", "none", NonJson)

\* What the application passes to the gateway methods, and what the
\* channel request can give: a failure, no channel, a voice channel, a text
\* channel.
Statuses == {"idle"}
ChannelIds == {7}
Calls == [channelID : ChannelIds, selfMute : BOOLEAN, selfDeaf : BOOLEAN]
ChannelObjs == {NoChannel, [exists |-> TRUE, guild_id |-> 1, type |-> VoiceChannelType], [exists |-> TRUE, guild_id |-> 1, type |-> 0]}

\* The application calls statusUpdate(status).
StatusUpdate(status) ==
    /\ Commit(statusUpdate(This, status, Null, Null, FALSE), "statusUpdate", "none", NonJson)

\* The application calls leaveVoiceChannel(guildID).
LeaveVoiceChannel(guildID) ==
    /\ Commit(leaveVoiceChannel(This, guildID), "leaveVoiceChannel", "none", NonJson)

\* The application calls joinVoiceChannel(channelID, selfMute, selfDeaf).
JoinVoiceChannel(channelID, selfMute, selfDeaf) ==
    /\ Cardinality(joinVoiceChannel(This, channelID, selfMute, selfDeaf).lookups) <= MaxLookups
    /\ Commit(joinVoiceChannel(This, channelID, selfMute, selfDeaf), "joinVoiceChannel", "none", NonJson)

\* The channel request of a suspended joinVoiceChannel is answered or fails.
ChannelLookup(call, rejects, channelObj) ==
    /\ call \in lookups
    /\ rejects => channelObj = NoChannel
    /\ Commit(joinVoiceChannelAnswered(This, call, rejects, channelObj), "channel", "none", NonJson)

\* The application calls onEvent(eventName, callback).
OnEvent(eventName, callback) ==
    /\ Cardinality(DOMAIN onEvent(This, eventName, callback).dispatchCallbacks)
          + Cardinality(DOMAIN commandCallbacks) <= MaxCallbacks
    /\ Commit(onEvent(This, eventName, callback), "onEvent", "none", NonJson)

\* The application calls registerCommand(keyWord, callback).
RegisterCommand(keyWord, callback) ==
    /\ Cardinality(DOMAIN dispatchCallbacks)
          + Cardinality(DOMAIN registerCommand(This, keyWord, callback).commandCallbacks) <= MaxCallbacks
    /\ Commit(registerCommand(This, keyWord, callback), "registerCommand", "none", NonJson)

Next ==
    \/ Discovered
    \/ DiscoveryFails
    \/ \E src \in Sources, data \in Frames : SocketData(src, data)
    \/ \E src \in EndSources : SocketEnd(src)
    \/ \E src \in Sources : HostDisconnect(src)
    \/ \E src \in {"current", "orphan"} : TimerTick(src)
    \/ Reconnect

Spec == Init /\ [][Next]_vars

SpecHistory == InitHistory /\ [][Next]_vars

\* The dispatch router: the application registers callbacks and reconnects
\* while transports deliver Dispatch frames.  _handleDispatch reads and
\* writes nothing of the heartbeat monitor, which is left out here.
NextRouter ==
    \/ Discovered
    \/ \E data \in RouterFrames : SocketData("current", data)
    \/ \E eventName \in EventNames, callback \in Callbacks : OnEvent(eventName, callback)
    \/ \E keyWord \in CommandWords, callback \in Callbacks : RegisterCommand(keyWord, callback)
    \/ Reconnect

SpecRouter == Init /\ [][NextRouter]_vars

\* The life of a session over its connections: the frames of the handshake
\* and of the session (Hello, READY, RESUMED, Reconnect, Invalid Session,
\* Heartbeat ACK), on the current transport and on the ones replaced.
SessionFrames ==
    {Frame(OpHello, Null, <<>>, TRUE, [NoD EXCEPT !.heartbeat_interval = 45000])}
    \cup {Frame(OpDispatch, MaxSeq, READY, TRUE, d) : d \in ReadyPayloads}
    \cup {Frame(OpDispatch, MaxSeq, RESUMED, FALSE, NoD)}
    \cup {Frame(op, Null, <<>>, FALSE, NoD) : op \in {OpReconnect, OpInvalidSession, OpHeartbeatAck}}

NextSession ==
    \/ Discovered
    \/ \E src \in Sources, data \in SessionFrames : SocketData(src, data)
    \/ \E src \in EndSources : SocketEnd(src)
    \/ \E src \in {"current", "orphan"} : TimerTick(src)
    \/ Reconnect

SpecSession == InitSession /\ [][NextSession]_vars

\* The gateway methods of the application: statusUpdate and the voice
\* methods called at any moment of a connection's life, with the frames
\* that arm the heartbeat timer and that make the client end its transport.
ApiFrames ==
    {Frame(OpHello, Null, <<>>, TRUE, [NoD EXCEPT !.heartbeat_interval = 45000]),
     Frame(OpInvalidSession, Null, <<>>, FALSE, NoD),
     Frame(OpHeartbeat, Null, <<>>, FALSE, NoD)}

NextApi ==
    \/ Discovered
    \/ \E src \in Sources, data \in ApiFrames : SocketData(src, data)
    \/ \E src \in EndSources : SocketEnd(src)
    \/ \E src \in {"current", "orphan"} : TimerTick(src)
    \/ Reconnect
    \/ \E status \in Statuses : StatusUpdate(status)
    \/ \E guildID \in GuildIds : LeaveVoiceChannel(guildID)
    \/ \E channelID \in ChannelIds, selfMute, selfDeaf \in BOOLEAN : JoinVoiceChannel(channelID, selfMute, selfDeaf)
    \/ \E call \in Calls, rejects \in BOOLEAN, channelObj \in ChannelObjs : ChannelLookup(call, rejects, channelObj)

SpecApi == Init /\ [][NextApi]_vars

\* Recovery: every endpoint request is answered, and answered successfully,
\* and a transport the client has ended delivers its end-of-stream.
LiveFrames ==
    {Frame(OpHello, Null, <<>>, TRUE, [NoD EXCEPT !.heartbeat_interval = 45000])}
    \cup {Frame(op, Null, <<>>, FALSE, NoD) : op \in {OpReconnect, OpHeartbeatAck}}

NextLive ==
    \/ Discovered
    \/ \E src \in Sources, data \in LiveFrames : SocketData(src, data)
    \/ \E src \in EndSources : SocketEnd(src)
    \/ \E src \in {"current", "orphan"} : TimerTick(src)
    \/ Reconnect

SpecLive ==
    /\ Init
    /\ [][NextLive]_vars
    /\ WF_vars(Discovered)
    /\ WF_vars(SocketEnd("oldEnding"))

\* ------------------------------------------------------------ the claims

IsData(l, op) == l.kind = "data" /\ l.op = op

\* C1: every Hello frame handled writes exactly one frame, Identify (with
\* presence status "online", since null, afk false) iff resuming was false
\* and Resume iff resuming was true, and arms a heartbeat timer with the
\* interval the Hello carried.
C1_HelloHandshake ==
    [][(IsData(last', OpHello) /\ last'.interval # Null) =>
          /\ Len(sent') = 1
          /\ sent'[1].op \in {OpIdentify, OpResume}
          /\ (sent'[1].op = OpIdentify <=> resuming = FALSE)
          /\ (sent'[1].op = OpResume <=> resuming = TRUE)
          /\ (sent'[1].op = OpIdentify =>
                /\ sent'[1].d.presence.status = "online"
                /\ sent'[1].d.presence.since = Null
                /\ sent'[1].d.presence.afk = FALSE)
          /\ heartbeatIntervalObj' = [active |-> TRUE, interval |-> last'.interval]]_vars

\* A Hello answered with Resume, its timer armed with the shorter interval.
C1_Witness ==
    /\ IsData(last, OpHello)
    /\ Len(sent) = 1
    /\ sent[1].op = OpResume
    /\ heartbeatIntervalObj = [active |-> TRUE, interval |-> 41250]

\* C2: a timer tick with heartbeatAcknowledged false calls reconnect() once
\* and writes nothing; any other tick sets heartbeatAcknowledged to false
\* and writes one Heartbeat frame carrying lastSequenceNum.
C2_Tick ==
    [][last'.kind = "tick" =>
          IF heartbeatAcknowledged = FALSE
          THEN last'.reconnects = 1 /\ Len(sent') = 0 /\ pending' = pending + 1
          ELSE /\ last'.reconnects = 0
               /\ heartbeatAcknowledged' = FALSE
               /\ Len(sent') = 1
               /\ sent'[1].op = OpHeartbeat
               /\ sent'[1].d = lastSequenceNum]_vars

\* A tick that found the heartbeat unacknowledged and reconnected.
C2_Witness == last.kind = "tick" /\ last.reconnects = 1 /\ Len(sent) = 0 /\ resuming

\* C3: lastSequenceNum is the s of the last Dispatch frame handled (null
\* before the first), and a step that handles no Dispatch frame leaves it
\* unchanged.
C3_LastSequence ==
    [][/\ lastSequenceNum' = lastDispatchS'
       /\ ~IsData(last', OpDispatch) => lastSequenceNum' = lastSequenceNum]_vars

\* A frame of another opcode handled after Dispatch frames, the sequence
\* number of the last of them kept.
C3_Witness == IsData(last, OpHeartbeatAck) /\ lastSequenceNum = 1 /\ outstanding = FALSE /\ resuming

\* C4: heartbeatAcknowledged starts true; it becomes false exactly in the
\* steps that write a Heartbeat frame, which happen only while it is true;
\* it becomes true only when a Heartbeat ACK is handled or reconnect() is
\* called.
C4_AckFlag ==
    /\ heartbeatAcknowledged = TRUE
    /\ [][/\ (heartbeatAcknowledged /\ ~heartbeatAcknowledged') => HeartbeatsIn(sent') # {}
          /\ HeartbeatsIn(sent') # {} => (heartbeatAcknowledged /\ ~heartbeatAcknowledged')
          /\ (~heartbeatAcknowledged /\ heartbeatAcknowledged') =>
                (IsData(last', OpHeartbeatAck) \/ last'.reconnects > 0)]_vars

\* A heartbeat written in answer to the server's Heartbeat frame, left
\* unacknowledged.
C4_Witness == IsData(last, OpHeartbeat) /\ HeartbeatsIn(sent) # {} /\ ~heartbeatAcknowledged

\* C5: at most one heartbeat timer is active.
C5_OneTimer == ActiveTimers(This) <= 1

\* C6: a step that calls reconnect() leaves resuming true, no heartbeat
\* timer active, heartbeatAcknowledged true, one more connect under way, and
\* sessionID and lastSequenceNum as they were.
C6_Reconnect ==
    [][last'.reconnects > 0 =>
          /\ resuming'
          /\ heartbeatIntervalObj' = NoTimer
          /\ orphanTimers' = 0
          /\ heartbeatAcknowledged'
          /\ pending' = pending + 1
          /\ sessionID' = sessionID
          /\ lastSequenceNum' = lastSequenceNum]_vars

\* C7: at most one transport that the client has not ended is alive.
C7_OneTransport == (IF socket = "open" THEN 1 ELSE 0) + oldOpen <= 1

\* C8: a tick writes a Heartbeat frame iff the heartbeat of the previous
\* tick, if there was one, was answered by a Heartbeat ACK; otherwise it
\* calls reconnect() and writes nothing.
C8_TickAfterTick ==
    [][last'.kind = "tick" =>
          /\ HeartbeatsIn(sent') # {} <=> tickHb # "sent"
          /\ tickHb = "sent" => (last'.reconnects = 1 /\ Len(sent') = 0)]_vars

\* C8 as amended: a tick writes a Heartbeat frame iff no Heartbeat frame the
\* client wrote before (at a tick or in answer to the server's Heartbeat
\* frame) is still waiting for a Heartbeat ACK or a reconnect(); otherwise
\* it calls reconnect() and writes nothing.
C8_TickAfterHeartbeat ==
    [][last'.kind = "tick" =>
          /\ HeartbeatsIn(sent') # {} <=> ~outstanding
          /\ outstanding => (last'.reconnects = 1 /\ Len(sent') = 0)]_vars

\* A tick of a timer the client no longer references that found no
\* heartbeat waiting and wrote one.
C8_Witness ==
    /\ last.kind = "tick"
    /\ last.src = "orphan"
    /\ Len(sent) = 1
    /\ sent[1].op = OpHeartbeat
    /\ sent[1].d = 2
    /\ outstanding

\* C9: a Resume frame carries the sessionID and lastSequenceNum stored when
\* the last reconnect() was called.
C9_ResumeAtReconnect ==
    [][\A n \in 1..Len(sent') :
          sent'[n].op = OpResume =>
             sent'[n].d.session_id = atReconnect[1] /\ sent'[n].d.seq = atReconnect[2]]_vars

\* C9 as amended: a Resume frame is written in answer to Hello and carries
\* the sessionID and lastSequenceNum stored when that Hello is handled.
C9_ResumeAtHello ==
    [][\A n \in 1..Len(sent') :
          sent'[n].op = OpResume =>
             /\ IsData(last', OpHello)
             /\ sent'[n].d.session_id = sessionID
             /\ sent'[n].d.seq = lastSequenceNum]_vars

\* A Resume frame whose sequence number is not the one stored at reconnect().
C9_Witness ==
    /\ IsData(last, OpHello)
    /\ Len(sent) = 1
    /\ sent[1].op = OpResume
    /\ sent[1].d.session_id = 1
    /\ sent[1].d.seq # atReconnect[2]

\* C10: handling the server's Heartbeat frame writes one Heartbeat frame.
C10_HeartbeatAnswered ==
    [][IsData(last', OpHeartbeat) => Cardinality(HeartbeatsIn(sent')) = 1]_vars

\* C11: an end-of-stream leaves no heartbeat timer active and calls no
\* reconnect(); a disconnect by the host calls no reconnect(); both leave
\* resuming, sessionID, lastSequenceNum and heartbeatAcknowledged as they
\* were.
C11_TransportGone ==
    [][last'.kind \in {"end", "host_disconnect"} =>
          /\ last'.kind = "end" => (~heartbeatIntervalObj'.active /\ orphanTimers' = 0)
          /\ last'.reconnects = 0
          /\ pending' = pending
          /\ UNCHANGED <<resuming, sessionID, lastSequenceNum, heartbeatAcknowledged>>]_vars

\* C12: while a _gatewayConnect called by reconnect() waits for the endpoint,
\* a frame that arrives changes no field of the session and writes nothing.
C12_NoFrameWhileConnecting ==
    [][(pending > 0 /\ resuming /\ last'.kind = "data" /\ last'.op # Null) =>
          /\ sent' = <<>>
          /\ last'.reconnects = 0
          /\ UNCHANGED <<lastSequenceNum, sessionID, resuming, heartbeatAcknowledged, me,
                         heartbeatIntervalObj, orphanTimers, guilds>>]_vars

\* C13: a message that is not JSON changes no field of the client, writes
\* nothing, lets no error leave the handler, ends no transport and calls no
\* reconnect().
C13_NonJsonDropped ==
    [][(last'.kind = "data" /\ last'.op = Null) =>
          /\ sent' = <<>>
          /\ ~last'.error
          /\ last'.reconnects = 0
          /\ last'.calls = <<>>
          /\ UNCHANGED <<lastSequenceNum, sessionID, resuming, heartbeatAcknowledged, me,
                         heartbeatIntervalObj, orphanTimers, guilds, dispatchCallbacks,
                         commandCallbacks, socket, oldOpen, oldEnding, pending>>]_vars

\* A message that is not JSON dropped by a client that is resuming, with a
\* session, a sequence number and a heartbeat timer.
C13_Witness ==
    /\ last.kind = "data"
    /\ last.op = Null
    /\ last.caught
    /\ heartbeatIntervalObj.active
    /\ sessionID = 1
    /\ lastSequenceNum = 2
    /\ resuming

\* C14: handling Invalid Session leaves resuming false and sessionID and
\* lastSequenceNum null.
C14_SessionDiscarded ==
    [][IsData(last', OpInvalidSession) =>
          /\ resuming' = FALSE
          /\ sessionID' = Null
          /\ lastSequenceNum' = Null]_vars

\* C15: handling a Dispatch frame calls the callback registered for its
\* event name exactly once, with the frame's payload, before anything else
\* the case of that event does (a callback that throws leaves the built-in
\* effect undone and no command callback called); with no callback
\* registered only the built-in effect happens.
C15_CallbackThenEffect ==
    [][IsData(last', OpDispatch) =>
             LET data == last'
                 calls == last'.calls
                 events == {n \in 1..Len(calls) : calls[n].reg = "event"}
                 effect == CASE data.t = READY -> sessionID' = data.d.session_id /\ me' = data.d.user
                             [] data.t = GUILD_CREATE -> data.d.id \in DOMAIN guilds' /\ guilds'[data.d.id] = data.d
                             [] data.t = RESUMED -> resuming' = FALSE
                             [] OTHER -> TRUE
             IN IF data.t \in DOMAIN dispatchCallbacks
                THEN /\ events = {1}
                     /\ calls[1] = [reg |-> "event", key |-> data.t, cb |-> dispatchCallbacks[data.t].id,
                                    hasD |-> data.hasD, d |-> data.d, rest |-> <<>>]
                     /\ IF dispatchCallbacks[data.t].throws
                        THEN Len(calls) = 1 /\ UNCHANGED <<sessionID, me, guilds, resuming>>
                        ELSE (data.hasD \/ data.t = RESUMED) => effect
                ELSE /\ events = {}
                     /\ (data.hasD \/ data.t = RESUMED) => effect]_vars

\* A MESSAGE_CREATE dispatch for which first the event callback and then the
\* command callback was called.
C15_Witness ==
    /\ IsData(last, OpDispatch)
    /\ Len(last.calls) = 2
    /\ last.calls[1].reg = "event"
    /\ last.calls[1].key = MESSAGE_CREATE
    /\ last.calls[2].reg = "command"
    /\ last.calls[1].d = last.calls[2].d

\* C16: sessionID is null at first; handling a READY dispatch leaves
\* sessionID and me equal to the payload's session_id and user; no other
\* step changes either.
C16_ReadyStored ==
    /\ sessionID = Null
    /\ [][IF IsData(last', OpDispatch) /\ last'.t = READY /\ last'.hasD
          THEN sessionID' = last'.d.session_id /\ me' = last'.d.user
          ELSE UNCHANGED <<sessionID, me>>]_vars

\* C17: resuming is false at first, becomes true only in a step that calls
\* reconnect() and false only in a step that handles a RESUMED dispatch, and
\* is false after every RESUMED dispatch handled.
C17_Resuming ==
    /\ resuming = FALSE
    /\ [][/\ (~resuming /\ resuming') => last'.reconnects > 0
          /\ (resuming /\ ~resuming') => (IsData(last', OpDispatch) /\ last'.t = RESUMED)
          /\ (IsData(last', OpDispatch) /\ last'.t = RESUMED) => ~resuming']_vars

\* C18: for a MESSAGE_CREATE dispatch whose content is the prefix, a word, a
\* space and more, the callback registered for the lower-cased word is
\* called exactly once with the payload and with everything after the first
\* space; when the content does not start with the prefix or nothing is
\* registered for the word, no command callback is called.
C18_Command ==
    [][(IsData(last', OpDispatch) /\ last'.t = MESSAGE_CREATE /\ last'.hasD) =>
          LET msg == last'.d.content
              calls == last'.calls
              commands == {n \in 1..Len(calls) : calls[n].reg = "command"}
              spaces == {k \in 1..Len(msg) : msg[k] = " "}
              first == CHOOSE k \in spaces : \A j \in spaces : k <= j
              word == toLowerCase(SubSeq(msg, 2, IF spaces = {} THEN Len(msg) ELSE first - 1))
              prefixed == Len(msg) > 0 /\ msg[1] = commandChar
          IN IF prefixed /\ word \in DOMAIN commandCallbacks
             THEN spaces # {} =>
                     /\ Cardinality(commands) = 1
                     /\ \A n \in commands :
                           calls[n] = [reg |-> "command", key |-> word, cb |-> commandCallbacks[word].id,
                                       hasD |-> TRUE, d |-> last'.d, rest |-> SubSeq(msg, first + 1, Len(msg))]
             ELSE commands = {}]_vars

\* C19: for a MESSAGE_CREATE dispatch whose content is the prefix and a
\* registered word with no space, the command callback is called with the
\* empty string as remainder and lastSequenceNum becomes the frame's s.
C19_BareCommand ==
    [][(/\ IsData(last', OpDispatch) /\ last'.t = MESSAGE_CREATE /\ last'.hasD
        /\ last'.d.content = <<"!", "p", "i", "n", "g">>
        /\ <<"p", "i", "n", "g">> \in DOMAIN commandCallbacks) =>
          /\ lastSequenceNum' = lastDispatchS'
          /\ \E n \in 1..Len(last'.calls) :
                last'.calls[n].reg = "command" /\ last'.calls[n].rest = <<>>]_vars

\* C20: onEvent stores the callback under the event name in upper case with
\* underscores for spaces ("message create" and "MESSAGE_CREATE" are one
\* slot) and registerCommand under the word in lower case; a registration
\* replaces what the slot held and leaves every other slot as it was; the
\* callback called for a registered key is the one its slot holds, the last
\* one registered.
C20_Registration ==
    [][/\ last'.kind \in {"onEvent", "registerCommand"} =>
             LET r == last'.registered[1]
                 slot == CASE r.name \in {MESSAGE_CREATE, <<"m", "e", "s", "s", "a", "g", "e", " ", "c", "r", "e", "a", "t", "e">>} -> MESSAGE_CREATE
                           [] r.name = <<"r", "e", "a", "d", "y">> -> READY
                           [] r.name = <<"R", "e", "s", "u", "m", "e", "d">> -> RESUMED
                           [] r.name = <<"g", "u", "i", "l", "d", "_", "c", "r", "e", "a", "t", "e">> -> GUILD_CREATE
                           [] r.name \in {<<"p", "i", "n", "g">>, <<"P", "i", "n", "g">>} -> <<"p", "i", "n", "g">>
                 old == IF r.reg = "event" THEN dispatchCallbacks ELSE commandCallbacks
                 new == IF r.reg = "event" THEN dispatchCallbacks' ELSE commandCallbacks'
             IN /\ Len(last'.registered) = 1
                /\ r.reg = (IF last'.kind = "onEvent" THEN "event" ELSE "command")
                /\ DOMAIN new = (DOMAIN old) \cup {slot}
                /\ new[slot].id = r.cb
                /\ \A k \in (DOMAIN old) \ {slot} : new[k] = old[k]
                /\ IF r.reg = "event" THEN UNCHANGED commandCallbacks ELSE UNCHANGED dispatchCallbacks
       /\ last'.kind \notin {"onEvent", "registerCommand"} =>
             /\ last'.registered = <<>>
             /\ UNCHANGED <<dispatchCallbacks, commandCallbacks>>
       /\ \A n \in 1..Len(last'.calls) :
             LET call == last'.calls[n]
                 registry == IF call.reg = "event" THEN dispatchCallbacks ELSE commandCallbacks
             IN call.key \in DOMAIN registry => call.cb = registry[call.key].id]_vars

\* A callback registered as "message create" in the slot MESSAGE_CREATE,
\* with a command registered too.
C20_Witness ==
    /\ last.kind = "onEvent"
    /\ last.registered[1].name = <<"m", "e", "s", "s", "a", "g", "e", " ", "c", "r", "e", "a", "t", "e">>
    /\ DOMAIN dispatchCallbacks = {MESSAGE_CREATE}
    /\ dispatchCallbacks[MESSAGE_CREATE].id = 2
    /\ DOMAIN commandCallbacks = {<<"p", "i", "n", "g">>}

\* C22: handling a GUILD_CREATE dispatch sets the guild cache's entry for
\* the payload's id to the payload and leaves every other entry as it was;
\* no other step changes the guild cache.
C22_GuildCache ==
    [][IF IsData(last', OpDispatch) /\ last'.t = GUILD_CREATE /\ last'.hasD
       THEN /\ DOMAIN guilds' = (DOMAIN guilds) \cup {last'.d.id}
            /\ guilds'[last'.d.id] = last'.d
            /\ \A g \in (DOMAIN guilds) \ {last'.d.id} : guilds'[g] = guilds[g]
       ELSE guilds' = guilds]_vars

\* C24: a frame that is JSON and whose handling raises an error is dropped
\* whole: the error does not leave the handler and lastSequenceNum,
\* sessionID, me, the guild cache and resuming are as they were.
C24_FailedFrameDropped ==
    [][(last'.kind = "data" /\ last'.op # Null /\ last'.caught) =>
          /\ ~last'.error
          /\ UNCHANGED <<lastSequenceNum, sessionID, me, guilds, resuming>>]_vars

\* C26: no Resume frame carries a null session id.
C26_ResumeHasSession ==
    [][\A n \in 1..Len(sent') : sent'[n].op = OpResume => sent'[n].d.session_id # Null]_vars

\* C23: from the moment the Hello of a connection has been handled until the
\* end-of-stream of that connection or a reconnect(), a heartbeat timer is
\* active, never none: the end-of-stream of a transport torn down during a
\* reconnect does not cancel the timer armed for the new connection.
C23_TimerWhileConnected == connection.armed => ActiveTimers(This) >= 1

\* C25: once reconnect() has been invoked on a session that has completed
\* READY, the Hello handled on the transport opened by that reconnect is
\* answered with Resume and never with Identify.
C25_ReconnectResumes ==
    [][(connection.phase = "opened" /\ socket = "open" /\ IsData(last', OpHello)
            /\ last'.src = "current" /\ last'.interval # Null) =>
          /\ \E n \in 1..Len(sent') : sent'[n].op = OpResume
          /\ \A n \in 1..Len(sent') : sent'[n].op # OpIdentify]_vars

\* C21: joinVoiceChannel writes exactly one Voice State Update frame, with
\* the guild id of the channel looked up, the channel id and the self_mute
\* and self_deaf given, if and only if the lookup succeeds and gives a
\* channel of type 2; otherwise it writes nothing; in either case no error
\* leaves the call.
C21_JoinVoiceChannel ==
    [][last'.kind = "channel" =>
          LET call == last'.lookup
              voice == ~call.rejects /\ call.channelObj.exists /\ call.channelObj.type = VoiceChannelType
          IN /\ ~last'.error
             /\ IF voice
                THEN /\ Len(sent') = 1
                     /\ sent'[1].op = OpVoiceStateUpdate
                     /\ sent'[1].d = [guild_id |-> call.channelObj.guild_id, channel_id |-> call.channelID,
                                      self_mute |-> call.selfMute, self_deaf |-> call.selfDeaf]
                ELSE sent' = <<>>]_vars

\* C28: every frame is written to the transport this.socket references
\* while that transport is open, never to one that has been ended or has
\* seen its end, and statusUpdate and leaveVoiceChannel never attempt a
\* write while no transport exists.
C28_WritesToOpenTransport ==
    [][/\ \A n \in 1..Len(sent') : sent'[n].to = "open"
       /\ last'.kind \in {"statusUpdate", "leaveVoiceChannel"} => ~last'.error]_vars

\* C27: when every endpoint request is answered successfully, every
\* invocation of reconnect(), also one made while a connect is pending or
\* before the first transport exists, is eventually followed by the opening
\* of a new transport.
C27_ReconnectOpensTransport ==
    (last.reconnects > 0) ~> (last.kind = "connect" /\ ~last.error)

====
